---- MODULE Spec2Model ----
(***************************************************************************)
(* Model of GimpItemTree (app/core/gimpitemtree.c): the hierarchy of the   *)
(* items of one image, its name hash and its active item.                  *)
(*                                                                         *)
(* Strings are sequences of one-character strings, so that strrchr, atoi   *)
(* and printf("%d") are computed character by character.                   *)
(***************************************************************************)
EXTENDS Integers, Sequences, FiniteSets, TLC

(***************************************************************************)
(* Bounds of the model.                                                    *)
(***************************************************************************)
\* largest "#<n>" number a call may produce; calls that would go beyond it
\* are not explored
MaxNumber == 2
\* largest position / index argument passed to a call
MaxPos == 1
\* number of calls made on the tree in one run
MaxCalls == 4

(***************************************************************************)
(* The universe of objects.                                                *)
(***************************************************************************)
NULL == "NULL"
\* GIMP_IMAGE_ACTIVE_PARENT, the sentinel parent of get_insert_pos
GIMP_IMAGE_ACTIVE_PARENT == "ACTIVE_PARENT"

\* the image the tree was constructed for, and some other image
TreeImage == "image"
OtherImage == "other_image"

\* the items of the tree's image the caller holds a reference to
Items == {"G", "A", "B"}
\* an item of another image, attached to that image's own tree
ForeignItem == "F"
AllItems == Items \cup {ForeignItem}
\* the items whose gimp_viewable_get_children() is a container (groups)
Groups == {"G"}

gimp_item_get_image(item) == IF item = ForeignItem THEN OtherImage ELSE TreeImage

\* gimp_viewable_get_children(): the item's container, or NULL
gimp_viewable_get_children(item) == IF item \in Groups THEN item ELSE NULL

\* containers are named by their owner: NULL names tree->container
Containers == {NULL} \cup Groups

(***************************************************************************)
(* C strings.                                                              *)
(***************************************************************************)
DigitChars == <<"0", "1", "2", "3", "4", "5", "6", "7", "8", "9">>

IsDigit(c) == \E d \in 1..10 : DigitChars[d] = c

DigitVal(c) == (CHOOSE d \in 1..10 : DigitChars[d] = c) - 1

\* strrchr (name, '#'): the index of the last '#', 0 when there is none
strrchr(s, c) ==
  IF \E i \in 1..Len(s) : s[i] = c
  THEN CHOOSE i \in 1..Len(s) : s[i] = c /\ \A k \in (i+1)..Len(s) : s[k] # c
  ELSE 0

\* the digits at the head of s, accumulated onto acc (the loop of atoi)
RECURSIVE AtoiDigits(_, _)
AtoiDigits(s, acc) ==
  IF s # << >> /\ IsDigit(Head(s))
  THEN AtoiDigits(Tail(s), acc * 10 + DigitVal(Head(s)))
  ELSE acc

\* atoi: leading blanks, an optional sign, then digits up to the first
\* character that is not a digit
RECURSIVE atoi(_)
atoi(s) ==
  IF s = << >> THEN 0
  ELSE IF Head(s) = " " THEN atoi(Tail(s))
  ELSE IF Head(s) = "-" THEN 0 - AtoiDigits(Tail(s), 0)
  ELSE IF Head(s) = "+" THEN AtoiDigits(Tail(s), 0)
  ELSE AtoiDigits(s, 0)

\* the decimal digits of a natural number
RECURSIVE NatDigits(_)
NatDigits(n) ==
  IF n < 10 THEN << DigitChars[n + 1] >>
  ELSE NatDigits(n \div 10) \o << DigitChars[(n % 10) + 1] >>

\* g_strdup_printf ("%d", number)
printf_d(number) ==
  IF number < 0 THEN << "-" >> \o NatDigits(0 - number) ELSE NatDigits(number)

\* g_strdup_printf ("%s#%d", name, number)
printf_s_hash_d(nm, number) == nm \o << "#" >> \o printf_d(number)

(***************************************************************************)
(* State.                                                                  *)
(***************************************************************************)
VARIABLES
  children,     \* the children of every container, top first
  parent,       \* gimp_item_get_parent() of every item
  name,         \* gimp_object_get_name() of every item
  name_hash,    \* private->name_hash: a set of entries (key, value, freed)
  active_item,  \* private->active_item
  last,         \* the last call: its arguments, results, undo pushes, signal
  pre,          \* containers and keys before the last add_item (history)
  calls,        \* number of calls made so far
  config,       \* occc->config of the cage coefficient operation
  output,       \* the output buffer: the 2N floats of every pixel
  proc,         \* every process() call: where it is, and its locals
  hist          \* what the process() calls did so far (history)

vars == << children, parent, name, name_hash, active_item, last, pre, calls,
           config, output, proc, hist >>

\* the state of the cage coefficient operation
cage == << config, output, proc, hist >>

tree == << children, parent, name, name_hash, active_item >>

(***************************************************************************)
(* GimpContainer, GimpViewable and GimpItem primitives used by the tree.   *)
(***************************************************************************)
\* gimp_container_get_child_index(): 0-based, -1 when not a child
gimp_container_get_child_index(seq, obj) ==
  IF \E i \in 1..Len(seq) : seq[i] = obj
  THEN (CHOOSE i \in 1..Len(seq) : seq[i] = obj) - 1
  ELSE -1

gimp_container_get_n_children(seq) == Len(seq)

\* gimp_container_get_child_by_index(): 0-based
gimp_container_get_child_by_index(seq, index) == seq[index + 1]

gimp_container_have(seq, obj) == \E i \in 1..Len(seq) : seq[i] = obj

gimp_container_remove(seq, obj) == SelectSeq(seq, LAMBDA o : o # obj)

\* gimp_container_insert(): obj becomes the child at index; an index of -1
\* or beyond the end appends; an object already in the container stays
gimp_container_insert(seq, obj, index) ==
  IF gimp_container_have(seq, obj) THEN seq
  ELSE IF index < 0 \/ index >= Len(seq) THEN Append(seq, obj)
  ELSE SubSeq(seq, 1, index) \o << obj >> \o SubSeq(seq, index + 1, Len(seq))

\* gimp_container_reorder(): move a child to new_index
gimp_container_reorder(seq, obj, new_index) ==
  IF gimp_container_have(seq, obj)
  THEN gimp_container_insert(gimp_container_remove(seq, obj), obj, new_index)
  ELSE seq

CLAMP(x, low, high) == IF x > high THEN high ELSE IF x < low THEN low ELSE x

\* gimp_item_get_container(): the parent's children, else tree->container
gimp_item_get_container(par, item) == gimp_viewable_get_children(par[item])

\* gimp_item_get_index(): the index in gimp_item_get_container()
gimp_item_get_index(ch, par, item) ==
  gimp_container_get_child_index(ch[gimp_item_get_container(par, item)], item)

ChildSet(ch, c) == { ch[c][i] : i \in 1..Len(ch[c]) }

\* the items below a set of containers, to any depth
RECURSIVE Below(_, _, _)
Below(ch, cs, depth) ==
  LET direct == UNION { ChildSet(ch, c) : c \in cs }
  IN  IF depth = 0 THEN direct
      ELSE direct \cup Below(ch, direct \cap Groups, depth - 1)

\* gimp_item_is_attached(): the tree's container holds the item, directly
\* or through its ancestors; an item of another image is attached there
gimp_item_is_attached(ch, item) ==
  item = ForeignItem \/ item \in Below(ch, {NULL}, Cardinality(Groups))

\* the descendants of an item
Descendants(ch, item) ==
  IF item \in Groups THEN Below(ch, {item}, Cardinality(Groups)) ELSE {}

(***************************************************************************)
(* The name hash.  A key is a pointer to the name string of the item that  *)
(* was inserted; gimp_object_set_name/take_name free that string, which    *)
(* leaves the key dangling ("freed").  What a lookup reads through a       *)
(* dangling key is not defined: within one call every dangling key either  *)
(* still reads as its old text ("intact") or compares unequal to anything. *)
(***************************************************************************)
Entry(key, value, freed) == [key |-> key, value |-> value, freed |-> freed]

Dangling(h) == { e \in h : e.freed }

Readable(h, intact) == { e \in h : ~e.freed \/ e \in intact }

ReadableKeys(h, intact) == { e.key : e \in Readable(h, intact) }

\* g_hash_table_lookup(): the values it can return, none when it returns NULL
g_hash_table_lookup(h, intact, key) ==
  { e.value : e \in { r \in Readable(h, intact) : r.key = key } }

\* g_hash_table_remove(): the tables it can leave
g_hash_table_remove(h, intact, key) ==
  LET hits == { r \in Readable(h, intact) : r.key = key }
  IN  IF hits = {} THEN {h} ELSE { h \ {e} : e \in hits }

\* g_hash_table_insert(): an existing key keeps its pointer and gets the
\* new value, otherwise the item's name string becomes a new key
g_hash_table_insert(h, intact, key, value) ==
  LET hits == { r \in Readable(h, intact) : r.key = key }
  IN  IF hits = {} THEN h \cup { Entry(key, value, FALSE) }
      ELSE (h \ hits) \cup { Entry(e.key, value, e.freed) : e \in hits }

\* the item's name string is freed: a key pointing to it dangles
FreeName(h, item, old) ==
  { IF e.value = item /\ e.key = old /\ ~e.freed
    THEN Entry(e.key, e.value, TRUE) ELSE e : e \in h }

(***************************************************************************)
(* gimp_item_tree_uniquefy_name()                                          *)
(***************************************************************************)
\* the text after the last '#' of a name that has one
Ext(nm) == SubSeq(nm, strrchr(nm, "#") + 1, Len(nm))

\* (variant: any extension is taken for a number, without the strcmp)
IsNumberExt_NoCompare(nm) == strrchr(nm, "#") # 0

\* the extension really is of the form "#<n>": printing atoi's result
\* gives the extension back
IsNumberExt(nm) ==
  strrchr(nm, "#") # 0 /\ printf_d(atoi(Ext(nm))) = Ext(nm)

\* (variant: the "#<n>" extension is not cut off the name)
UniquefyStep_KeepExt(nm) ==
  LET number == IF IsNumberExt(nm) THEN atoi(Ext(nm)) ELSE 0
  IN  printf_s_hash_d(nm, number + 1)

\* (variant: the number of the extension is not taken over, every pass
\* counts from 0)
UniquefyStep_NoNumber(nm) ==
  LET ext  == strrchr(nm, "#")
      stem == IF IsNumberExt(nm) THEN SubSeq(nm, 1, ext - 1) ELSE nm
  IN  printf_s_hash_d(stem, 1)

\* one pass of the while loop: the name the item takes
UniquefyStep(nm) ==
  LET ext    == strrchr(nm, "#")
      number == IF IsNumberExt(nm) THEN atoi(Ext(nm)) ELSE 0
      stem   == IF IsNumberExt(nm) THEN SubSeq(nm, 1, ext - 1) ELSE nm
  IN  printf_s_hash_d(stem, number + 1)

\* the while loop: as long as the lookup of the item's name finds an entry
\* the item takes the next name, which frees its previous name string
RECURSIVE UniquefyLoop(_, _, _, _)
UniquefyLoop(h, intact, item, nm) ==
  IF g_hash_table_lookup(h, intact, nm) # {}
  THEN UniquefyLoop(FreeName(h, item, nm), intact, item, UniquefyStep(nm))
  ELSE [name |-> nm, hash |-> h]

\* new_name is a set: empty for NULL, else the one proposed name.  The
\* result is the set of outcomes: the final name, the table, and the keys
\* the loop's lookups could read
gimp_item_tree_uniquefy_name(h, intact, item, cur, new_name) ==
  LET starts ==
        IF new_name # {}
        THEN { [hash |-> FreeName(h2, item, cur), name |-> nn] :
                 h2 \in g_hash_table_remove(h, intact, cur), nn \in new_name }
        ELSE { [hash |-> h, name |-> cur] }
  IN  { LET r == UniquefyLoop(s.hash, intact, item, s.name)
        IN  [name  |-> r.name,
             start |-> s.name,
             seen  |-> ReadableKeys(s.hash, intact),
             hash  |-> g_hash_table_insert(r.hash, intact, r.name, item)] :
        s \in starts }

\* the number a name ends in, 0 when it has no '#'
NameNumber(nm) == IF strrchr(nm, "#") = 0 THEN 0 ELSE atoi(Ext(nm))

\* the model follows a call only while the numbers stay small
WithinBound(r) == r.name = r.start \/ NameNumber(r.name) <= MaxNumber

(***************************************************************************)
(* The record of a call.                                                   *)
(***************************************************************************)
NoCall ==
  [op |-> "none", ok |-> TRUE, item |-> NULL, parent |-> NULL, pos |-> 0,
   push |-> FALSE, nm |-> << >>, ret |-> NULL, retpos |-> 0,
   undo |-> << >>, notify |-> FALSE, ran |-> FALSE, seen |-> {}]

NoPre == [valid |-> FALSE, children |-> << >>, hash |-> {}]

\* what an undo push sees of the item
UndoRecord(kind, item) ==
  [kind   |-> kind,
   item   |-> item,
   name   |-> name[item],
   parent |-> parent[item],
   index  |-> gimp_item_get_index(children, parent, item),
   keyed  |-> Entry(name[item], item, FALSE) \in name_hash]

\* a g_return_if_fail() that fails: the call returns and changes nothing
Rejected(call) ==
  /\ last' = [NoCall EXCEPT !.op = call.op, !.item = call.item, !.ok = FALSE]
  /\ pre' = NoPre
  /\ UNCHANGED tree

(***************************************************************************)
(* Initial state: an empty tree; the items exist, unattached, with names.  *)
(***************************************************************************)
\* the names the items are created with
InitNames ==
  { [i \in Items |-> << "L" >>],
    [i \in Items |-> IF i = "G" THEN << "L" >> ELSE << "x", "#", "0", "1" >>] }

\* the names callers propose in rename_item
NewNames == { << "L" >>, << "x", "#", "0", "1" >>, << "f", "#", "-", "3" >> }

\* the names callers look up
LookupNames == { << "L" >>, << "x", "#", "0", "1" >> }

\* the items callers suggest as the new active item of remove_item
SuggestedItems == { NULL, "A" }

\* no cage coefficient operation exists next to the tree
NoCage ==
  /\ config = NULL
  /\ output = << >>
  /\ proc = << >>
  /\ hist = << >>

Init ==
  /\ children = [c \in Containers |-> << >>]
  /\ parent = [i \in Items |-> NULL]
  /\ name \in InitNames
  /\ name_hash = {}
  /\ active_item = NULL
  /\ last = NoCall
  /\ pre = NoPre
  /\ calls = 0
  /\ NoCage

(***************************************************************************)
(* gimp_item_tree_set_active_item()                                        *)
(***************************************************************************)
\* (variant: the item is stored without the attached and image checks)
gimp_item_tree_set_active_item_Unchecked(item) ==
  /\ active_item' = item
  /\ last' = [NoCall EXCEPT !.op = "set_active_item", !.item = item,
                            !.notify = (item # active_item)]
  /\ pre' = NoPre
  /\ UNCHANGED << children, parent, name, name_hash >>

gimp_item_tree_set_active_item(item) ==
  LET call == [NoCall EXCEPT !.op = "set_active_item", !.item = item]
  IN  IF ~(item = NULL \/ (gimp_item_is_attached(children, item) /\
                           gimp_item_get_image(item) = TreeImage))
      THEN Rejected(call)
      ELSE /\ active_item' = item
           /\ last' = [call EXCEPT !.notify = (item # active_item)]
           /\ pre' = NoPre
           /\ UNCHANGED << children, parent, name, name_hash >>

(***************************************************************************)
(* gimp_item_tree_get_item_by_name()                                       *)
(***************************************************************************)
gimp_item_tree_get_item_by_name(nm) ==
  \E intact \in SUBSET Dangling(name_hash) :
    LET found == g_hash_table_lookup(name_hash, intact, nm)
    IN  /\ \E ret \in (IF found = {} THEN {NULL} ELSE found) :
             last' = [NoCall EXCEPT !.op = "get_item_by_name", !.nm = nm,
                                    !.ret = ret]
        /\ pre' = NoPre
        /\ UNCHANGED tree

(***************************************************************************)
(* gimp_item_tree_get_insert_pos()                                         *)
(***************************************************************************)
\* (variant: an active item with children is treated like one without)
InsertParent_NeverActive(hint) ==
  IF hint = GIMP_IMAGE_ACTIVE_PARENT
  THEN IF active_item # NULL THEN parent[active_item] ELSE NULL
  ELSE hint

\* the parent the call resolves
InsertParent(hint) ==
  IF hint = GIMP_IMAGE_ACTIVE_PARENT
  THEN IF active_item # NULL
       THEN IF gimp_viewable_get_children(active_item) # NULL
            THEN active_item
            ELSE parent[active_item]
       ELSE NULL
  ELSE hint

\* (variant: the final CLAMP is missing)
InsertPosition_NoClamp(hint, position) ==
  LET par       == InsertParent(hint)
      container == children[gimp_viewable_get_children(par)]
      pos1      == IF hint = GIMP_IMAGE_ACTIVE_PARENT /\ active_item # NULL /\
                      gimp_viewable_get_children(active_item) # NULL
                   THEN 0 ELSE position
      pos2      == IF pos1 = -1 /\ active_item # NULL
                   THEN gimp_container_get_child_index(container, active_item)
                   ELSE pos1
  IN  IF pos1 = -1 /\ pos2 = -1 THEN 0 ELSE pos2

\* the position the call leaves in *position
InsertPosition(hint, position) ==
  LET par       == InsertParent(hint)
      container == children[gimp_viewable_get_children(par)]
      pos1      == IF hint = GIMP_IMAGE_ACTIVE_PARENT /\ active_item # NULL /\
                      gimp_viewable_get_children(active_item) # NULL
                   THEN 0 ELSE position
      pos2      == IF pos1 = -1 /\ active_item # NULL
                   THEN gimp_container_get_child_index(container, active_item)
                   ELSE pos1
      pos3      == IF pos1 = -1 /\ pos2 = -1 THEN 0 ELSE pos2
  IN  CLAMP(pos3, 0, gimp_container_get_n_children(container))

gimp_item_tree_get_insert_pos(hint, position) ==
  /\ last' = [NoCall EXCEPT !.op = "get_insert_pos", !.parent = hint,
                            !.pos = position,
                            !.ret = InsertParent(hint),
                            !.retpos = InsertPosition(hint, position)]
  /\ pre' = NoPre
  /\ UNCHANGED tree

(***************************************************************************)
(* gimp_item_tree_add_item()                                               *)
(***************************************************************************)
gimp_item_tree_add_item(item, par, position) ==
  LET call == [NoCall EXCEPT !.op = "add_item", !.item = item,
                             !.parent = par, !.pos = position]
  IN  IF ~(~gimp_item_is_attached(children, item) /\
           gimp_item_get_image(item) = TreeImage)
      THEN Rejected(call)
      ELSE \E intact \in SUBSET Dangling(name_hash) :
           \E r \in gimp_item_tree_uniquefy_name(name_hash, intact, item,
                                                 name[item], {}) :
             LET container == gimp_viewable_get_children(par)
             IN  /\ WithinBound(r)
                 /\ name' = [name EXCEPT ![item] = r.name]
                 /\ name_hash' = r.hash
                 /\ parent' = IF par # NULL
                              THEN [parent EXCEPT ![item] = par]
                              ELSE parent
                 /\ children' =
                      [children EXCEPT ![container] =
                         gimp_container_insert(@, item, position)]
                 /\ last' = [call EXCEPT !.nm = r.start, !.ran = TRUE,
                                          !.seen = r.seen]
                 /\ pre' = [valid |-> TRUE, children |-> children,
                            hash |-> name_hash]
                 /\ UNCHANGED active_item

(***************************************************************************)
(* gimp_item_tree_remove_item()                                            *)
(***************************************************************************)
\* (variant: an emptied container does not fall back to the parent)
RemoveNewActive_NoParent(item, new_active) ==
  LET container  == gimp_item_get_container(parent, item)
      index      == gimp_item_get_index(children, parent, item)
      after      == gimp_container_remove(children[container], item)
      n_children == gimp_container_get_n_children(after)
  IN  IF new_active # NULL THEN new_active
      ELSE IF n_children > 0
           THEN gimp_container_get_child_by_index(
                  after, CLAMP(index, 0, n_children - 1))
      ELSE new_active

\* the item the call returns
RemoveNewActive(item, new_active) ==
  LET par        == parent[item]
      container  == gimp_item_get_container(parent, item)
      index      == gimp_item_get_index(children, parent, item)
      after      == gimp_container_remove(children[container], item)
      n_children == gimp_container_get_n_children(after)
  IN  IF new_active # NULL THEN new_active
      ELSE IF n_children > 0
           THEN gimp_container_get_child_by_index(
                  after, CLAMP(index, 0, n_children - 1))
      ELSE IF par # NULL THEN par
      ELSE new_active

\* (variant: the item the call returns is also made the active item)
gimp_item_tree_remove_item_SetsActive(item, new_active) ==
  LET call == [NoCall EXCEPT !.op = "remove_item", !.item = item,
                             !.parent = new_active]
  IN  IF ~(gimp_item_is_attached(children, item) /\
           gimp_item_get_image(item) = TreeImage)
      THEN Rejected(call)
      ELSE LET container == gimp_item_get_container(parent, item)
           IN  /\ children' = [children EXCEPT ![container] =
                                 gimp_container_remove(@, item)]
               /\ parent' = IF parent[item] # NULL
                            THEN [parent EXCEPT ![item] = NULL]
                            ELSE parent
               /\ active_item' = RemoveNewActive(item, new_active)
               /\ last' = [call EXCEPT
                             !.ret = RemoveNewActive(item, new_active),
                             !.pos = gimp_item_get_index(children, parent,
                                                         item)]
               /\ pre' = NoPre
               /\ UNCHANGED << name, name_hash >>

gimp_item_tree_remove_item(item, new_active) ==
  LET call == [NoCall EXCEPT !.op = "remove_item", !.item = item,
                             !.parent = new_active]
  IN  IF ~(gimp_item_is_attached(children, item) /\
           gimp_item_get_image(item) = TreeImage)
      THEN Rejected(call)
      ELSE LET container == gimp_item_get_container(parent, item)
           IN  /\ children' = [children EXCEPT ![container] =
                                 gimp_container_remove(@, item)]
               /\ parent' = IF parent[item] # NULL
                            THEN [parent EXCEPT ![item] = NULL]
                            ELSE parent
               /\ last' = [call EXCEPT
                             !.ret = RemoveNewActive(item, new_active),
                             !.pos = gimp_item_get_index(children, parent,
                                                         item)]
               /\ pre' = NoPre
               /\ UNCHANGED << name, name_hash, active_item >>

(***************************************************************************)
(* gimp_item_tree_reorder_item()                                           *)
(***************************************************************************)
\* new_index after the CLAMP
ReorderIndex(item, new_parent, new_index) ==
  LET container     == gimp_item_get_container(parent, item)
      new_container == gimp_viewable_get_children(new_parent)
      n_items       == gimp_container_get_n_children(children[new_container])
  IN  CLAMP(new_index, 0,
            IF new_container = container THEN n_items - 1 ELSE n_items)

\* (variant: the undo record is pushed after the hierarchy was changed)
gimp_item_tree_reorder_item_UndoAfter(item, new_parent, new_index, push_undo) ==
  LET call == [NoCall EXCEPT !.op = "reorder_item", !.item = item,
                             !.parent = new_parent, !.pos = new_index,
                             !.push = push_undo]
  IN  IF ~(/\ item \in AllItems
           /\ gimp_item_is_attached(children, item)
           /\ gimp_item_get_image(item) = TreeImage
           /\ new_parent = NULL \/ gimp_item_is_attached(children, new_parent)
           /\ new_parent = NULL \/ gimp_item_get_image(new_parent) = TreeImage
           /\ new_parent = NULL \/
                gimp_viewable_get_children(new_parent) # NULL)
      THEN Rejected(call)
      ELSE LET container     == gimp_item_get_container(parent, item)
               new_container == gimp_viewable_get_children(new_parent)
               index         == ReorderIndex(item, new_parent, new_index)
               changes       == new_container # container \/
                                index # gimp_item_get_index(children, parent,
                                                            item)
           IN  /\ IF ~changes
                  THEN UNCHANGED << children, parent >>
                  ELSE IF new_container # container
                  THEN /\ children' =
                            [children EXCEPT
                               ![container] = gimp_container_remove(@, item),
                               ![new_container] =
                                  gimp_container_insert(@, item, index)]
                       /\ parent' = [parent EXCEPT ![item] = new_parent]
                  ELSE /\ children' =
                            [children EXCEPT ![container] =
                               gimp_container_reorder(@, item, index)]
                       /\ UNCHANGED parent
               /\ last' = [call EXCEPT
                             !.retpos = index,
                             !.undo =
                               IF changes /\ push_undo
                               THEN << [UndoRecord("reorder", item) EXCEPT
                                          !.parent = parent'[item],
                                          !.index = gimp_item_get_index(
                                                      children', parent',
                                                      item)] >>
                               ELSE << >>]
               /\ pre' = NoPre
               /\ UNCHANGED << name, name_hash, active_item >>

gimp_item_tree_reorder_item(item, new_parent, new_index, push_undo) ==
  LET call == [NoCall EXCEPT !.op = "reorder_item", !.item = item,
                             !.parent = new_parent, !.pos = new_index,
                             !.push = push_undo]
  IN  IF ~(/\ item \in AllItems
           /\ gimp_item_is_attached(children, item)
           /\ gimp_item_get_image(item) = TreeImage
           /\ new_parent = NULL \/ gimp_item_is_attached(children, new_parent)
           /\ new_parent = NULL \/ gimp_item_get_image(new_parent) = TreeImage
           /\ new_parent = NULL \/
                gimp_viewable_get_children(new_parent) # NULL)
      THEN Rejected(call)
      ELSE LET container     == gimp_item_get_container(parent, item)
               new_container == gimp_viewable_get_children(new_parent)
               index         == ReorderIndex(item, new_parent, new_index)
               changes       == new_container # container \/
                                index # gimp_item_get_index(children, parent,
                                                            item)
           IN  /\ IF ~changes
                  THEN UNCHANGED << children, parent >>
                  ELSE IF new_container # container
                  THEN /\ children' =
                            [children EXCEPT
                               ![container] = gimp_container_remove(@, item),
                               ![new_container] =
                                  gimp_container_insert(@, item, index)]
                       /\ parent' = [parent EXCEPT ![item] = new_parent]
                  ELSE /\ children' =
                            [children EXCEPT ![container] =
                               gimp_container_reorder(@, item, index)]
                       /\ UNCHANGED parent
               /\ last' = [call EXCEPT
                             !.retpos = index,
                             !.undo = IF changes /\ push_undo
                                      THEN << UndoRecord("reorder", item) >>
                                      ELSE << >>]
               /\ pre' = NoPre
               /\ UNCHANGED << name, name_hash, active_item >>

(***************************************************************************)
(* gimp_item_tree_rename_item()                                            *)
(***************************************************************************)
\* (variant: the check that the item is attached is missing)
gimp_item_tree_rename_item_Unchecked(item, new_name, push_undo) ==
  LET call == [NoCall EXCEPT !.op = "rename_item", !.item = item,
                             !.nm = new_name, !.push = push_undo]
  IN  IF ~(gimp_item_get_image(item) = TreeImage)
      THEN Rejected(call)
      ELSE IF new_name = name[item]
      THEN /\ last' = call
           /\ pre' = NoPre
           /\ UNCHANGED tree
      ELSE \E intact \in SUBSET Dangling(name_hash) :
           \E r \in gimp_item_tree_uniquefy_name(name_hash, intact, item,
                                                 name[item], {new_name}) :
             /\ WithinBound(r)
             /\ name' = [name EXCEPT ![item] = r.name]
             /\ name_hash' = r.hash
             /\ last' = [call EXCEPT
                           !.ran = TRUE,
                           !.seen = r.seen,
                           !.undo = IF push_undo
                                    THEN << UndoRecord("rename", item) >>
                                    ELSE << >>]
             /\ pre' = NoPre
             /\ UNCHANGED << children, parent, active_item >>

gimp_item_tree_rename_item(item, new_name, push_undo) ==
  LET call == [NoCall EXCEPT !.op = "rename_item", !.item = item,
                             !.nm = new_name, !.push = push_undo]
  IN  IF ~(gimp_item_is_attached(children, item) /\
           gimp_item_get_image(item) = TreeImage)
      THEN Rejected(call)
      ELSE IF new_name = name[item]
      THEN /\ last' = call
           /\ pre' = NoPre
           /\ UNCHANGED tree
      ELSE \E intact \in SUBSET Dangling(name_hash) :
           \E r \in gimp_item_tree_uniquefy_name(name_hash, intact, item,
                                                 name[item], {new_name}) :
             /\ WithinBound(r)
             /\ name' = [name EXCEPT ![item] = r.name]
             /\ name_hash' = r.hash
             /\ last' = [call EXCEPT
                           !.ran = TRUE,
                           !.seen = r.seen,
                           !.undo = IF push_undo
                                    THEN << UndoRecord("rename", item) >>
                                    ELSE << >>]
             /\ pre' = NoPre
             /\ UNCHANGED << children, parent, active_item >>

(***************************************************************************)
(* The callers.  The tree checks that items are attached or not and of its *)
(* image; that the hierarchy stays a tree is left to its callers: they add *)
(* an item that is in no container, below an attached parent or at the top *)
(* level, and never put an item below itself.                              *)
(***************************************************************************)
Positions == -1 .. MaxPos

InNoContainer(item) ==
  \A c \in Containers : ~gimp_container_have(children[c], item)

NotBelowItself(item, par) ==
  par = NULL \/ (par # item /\ par \notin Descendants(children, item))

\* one more call is made on the tree; it does not touch a cage operation
Tick == calls < MaxCalls /\ calls' = calls + 1 /\ UNCHANGED cage

SetActiveItem ==
  \E item \in AllItems \cup {NULL} :
    Tick /\ gimp_item_tree_set_active_item(item)

GetItemByName ==
  \E nm \in LookupNames : Tick /\ gimp_item_tree_get_item_by_name(nm)

GetInsertPos ==
  \E hint \in {GIMP_IMAGE_ACTIVE_PARENT, NULL} \cup Groups :
    \E position \in Positions :
      Tick /\ gimp_item_tree_get_insert_pos(hint, position)

AddItem ==
  \E item \in AllItems, par \in {NULL} \cup Groups :
    \E position \in 0 .. Len(children[par]) :
      /\ Tick
      /\ InNoContainer(item) \/ gimp_item_is_attached(children, item)
      /\ NotBelowItself(item, par)
      /\ par = NULL \/ gimp_item_is_attached(children, par)
      /\ gimp_item_tree_add_item(item, par, position)

RemoveItem ==
  \E item \in AllItems, new_active \in SuggestedItems :
    Tick /\ gimp_item_tree_remove_item(item, new_active)

ReorderItem ==
  \E item \in AllItems, new_parent \in AllItems \cup {NULL} :
    \E new_index \in Positions, push_undo \in BOOLEAN :
      /\ Tick
      /\ NotBelowItself(item, new_parent)
      /\ gimp_item_tree_reorder_item(item, new_parent, new_index, push_undo)

RenameItem ==
  \E item \in AllItems, new_name \in NewNames, push_undo \in BOOLEAN :
    Tick /\ gimp_item_tree_rename_item(item, new_name, push_undo)

Next ==
  \/ SetActiveItem
  \/ GetItemByName
  \/ GetInsertPos
  \/ AddItem
  \/ RemoveItem
  \/ ReorderItem
  \/ RenameItem

Spec == Init /\ [][Next]_vars

(***************************************************************************)
(* Properties of the name index.                                           *)
(***************************************************************************)
Attached == { i \in Items : gimp_item_is_attached(children, i) }

Keys(h) == { e.key : e \in h }

\* C1: the name index contains exactly the attached items: every key is the
\* current name of an attached item and maps to it, every attached item has
\* an entry, and no key is duplicated or left over for a detached item.
C1_NameIndexExact ==
  /\ \A e \in name_hash : e.value \in Attached /\ e.key = name[e.value]
  /\ \A i \in Attached : \E e \in name_hash : e.key = name[i] /\ e.value = i
  /\ \A e1, e2 \in name_hash : e1.key = e2.key => e1 = e2

\* C2: no two attached items have the same name, and looking up the name of
\* an attached item returns that item, whatever the lookup reads through
\* the dangling keys.
C2_UniqueNamesAndLookup ==
  /\ \A i, j \in Attached : i # j => name[i] # name[j]
  /\ \A i \in Attached :
       \A intact \in SUBSET Dangling(name_hash) :
         g_hash_table_lookup(name_hash, intact, name[i]) = {i}

C4_AddRemoveRestores ==
  [][ ( /\ last.op = "add_item" /\ last.ok
        /\ last'.op = "remove_item" /\ last'.ok
        /\ last'.item = last.item )
      => ( /\ children' = pre.children
           /\ Keys(name_hash') = Keys(pre.hash) )
    ]_vars

(***************************************************************************)
(* Name uniquification.                                                    *)
(***************************************************************************)
\* the last call ran gimp_item_tree_uniquefy_name
Uniquefied == last.op \in {"add_item", "rename_item"} /\ last.ok /\ last.ran

\* the name the item entered the loop with, the name it left it with, and
\* the keys the loop's lookups could read
Proposed == last.nm
Final == name[last.item]
SeenKeys == last.seen

\* the integers whose decimal forms the names of the model can end in
SmallInts == (0 - 10) .. (MaxNumber + 10)

\* the places of a '#' that no other '#' follows
LastHash(nm) ==
  { i \in 1..Len(nm) : nm[i] = "#" /\ \A k \in (i+1)..Len(nm) : nm[k] # "#" }

\* the integers, of a set, whose decimal form is the text after the last '#'
SuffixInts(nm, ints) ==
  { n \in ints : \E i \in LastHash(nm) : SubSeq(nm, i + 1, Len(nm)) = printf_d(n) }

\* stem and base number of a name, where ints are the integers a suffix
\* may denote
StemBase(nm, ints) ==
  IF SuffixInts(nm, ints) = {} THEN [stem |-> nm, base |-> 0]
  ELSE [stem |-> SubSeq(nm, 1, (CHOOSE i \in LastHash(nm) : TRUE) - 1),
        base |-> CHOOSE n \in SuffixInts(nm, ints) : TRUE]

\* final is stem#k for the least k above base such that stem#k is no key
LeastFree(final, stem, base, keys) ==
  \E k \in (base + 1) .. (base + Cardinality(keys) + 1) :
    /\ final = printf_s_hash_d(stem, k)
    /\ final \notin keys
    /\ \A m \in (base + 1) .. (k - 1) : printf_s_hash_d(stem, m) \in keys

\* C5: a name that collides with a key becomes stem#k for the least k above
\* the base number (0 without a canonical "#<n>" suffix, n with one) such
\* that stem#k is no key; a name that does not collide is kept.
C5_LeastFreeSuffix ==
  Uniquefied =>
    IF Proposed \notin SeenKeys THEN Final = Proposed
    ELSE LET sb == StemBase(Proposed, SmallInts)
         IN  LeastFree(Final, sb.stem, sb.base, SeenKeys)

\* C5 witness: "L" and "L#1" are keys and an item proposed as "L" got "L#2".
C5_Witness ==
  /\ Uniquefied
  /\ Proposed = << "L" >>
  /\ { << "L" >>, << "L", "#", "1" >> } \subseteq SeenKeys
  /\ Final = << "L", "#", "2" >>

\* a '#' followed by text that is the decimal form of no integer
NonCanonicalExt(nm) == LastHash(nm) # {} /\ SuffixInts(nm, SmallInts) = {}

\* C6: a colliding name whose text after the last '#' is not the canonical
\* decimal form of an integer is the stem as a whole: it gets "#1" appended,
\* then "#2", ... while the result still collides.
C6_NonCanonicalStem ==
  (Uniquefied /\ Proposed \in SeenKeys /\ NonCanonicalExt(Proposed)) =>
    LeastFree(Final, Proposed, 0, SeenKeys)

\* C6 witness: "x#01" was added while "x#01" was a key and became "x#01#1".
C6_Witness ==
  /\ Uniquefied /\ last.op = "add_item"
  /\ Proposed = << "x", "#", "0", "1" >>
  /\ Proposed \in SeenKeys
  /\ Final = << "x", "#", "0", "1", "#", "1" >>

\* a '#' followed by the decimal form of a negative integer
NegativeExt(nm) == SuffixInts(nm, { n \in SmallInts : n < 0 }) # {}

\* C7: a colliding name whose text after the last '#' is a negative integer
\* is an atomic stem: uniquification appends "#1" (foo#-3 gives foo#-3#1).
C7_NegativeNotParsed ==
  (Uniquefied /\ Proposed \in SeenKeys /\ NegativeExt(Proposed)) =>
    LeastFree(Final, Proposed, 0, SeenKeys)

(***************************************************************************)
(* remove_item.                                                            *)
(***************************************************************************)
\* the container that holds an item
Holder(ch, item) == CHOOSE c \in Containers : item \in ChildSet(ch, c)

\* the 0-based place of an item among the children of a container
PlaceIn(seq, item) == (CHOOSE i \in 1..Len(seq) : seq[i] = item) - 1

Min(a, b) == IF a < b THEN a ELSE b

\* C8: remove_item on an attached item removes it from its container,
\* clears its parent, and returns the suggested item if there is one, else
\* the child now at min(old index, n_children - 1) of the vacated container
\* if it has children, else the former parent if there was one, else null.
C8_RemoveResult ==
  [][ (last'.op = "remove_item" /\ last'.ok) =>
        LET item == last'.item
            c    == Holder(children, item)
            old  == PlaceIn(children[c], item)
            rest == children'[c]
            n    == Len(rest)
        IN  /\ children' = [children EXCEPT ![c] =
                              SelectSeq(@, LAMBDA o : o # item)]
            /\ parent' = [parent EXCEPT ![item] = NULL]
            /\ last'.ret =
                 IF last'.parent # NULL THEN last'.parent
                 ELSE IF n > 0 THEN rest[Min(old, n - 1) + 1]
                 ELSE IF parent[item] # NULL THEN parent[item]
                 ELSE NULL
    ]_vars

\* C8 witness: the only child of G was removed with no suggestion, and the
\* call returned G.
C8_Witness ==
  /\ last.op = "remove_item" /\ last.ok
  /\ last.parent = NULL
  /\ last.item # "G"
  /\ children["G"] = << >>
  /\ last.ret = "G"

(***************************************************************************)
(* get_insert_pos.                                                         *)
(***************************************************************************)
\* C9: with the "active parent" sentinel the parent is the active item (and
\* the position 0) when the active item has children, the active item's
\* parent when it has none, the root when there is no active item; any
\* other parent is returned unchanged.
C9_ActiveParentResolution ==
  last.op = "get_insert_pos" =>
    IF last.parent = GIMP_IMAGE_ACTIVE_PARENT
    THEN IF active_item = NULL THEN last.ret = NULL
         ELSE IF active_item \in Groups
              THEN last.ret = active_item /\ last.retpos = 0
              ELSE last.ret = parent[active_item]
    ELSE last.ret = last.parent

\* C9 witness: the sentinel resolved to an active group that has a child,
\* and the position 1 that was passed became 0.
C9_Witness ==
  /\ last.op = "get_insert_pos"
  /\ last.parent = GIMP_IMAGE_ACTIVE_PARENT
  /\ active_item \in Groups
  /\ children[active_item] # << >>
  /\ last.pos = 1
  /\ last.ret = active_item /\ last.retpos = 0

\* the children of the container get_insert_pos resolved
ResolvedChildren == children[IF last.ret \in Groups THEN last.ret ELSE NULL]

\* C10: the position returned lies in [0, n_children] of the resolved
\* container; a position of -1 becomes the active item's index in that
\* container, or 0 when there is no active item or it is not a child of it.
C10_InsertPositionRange ==
  last.op = "get_insert_pos" =>
    /\ last.retpos \in 0 .. Len(ResolvedChildren)
    /\ last.pos = -1 =>
         last.retpos =
           IF active_item # NULL /\
              \E i \in 1..Len(ResolvedChildren) : ResolvedChildren[i] = active_item
           THEN PlaceIn(ResolvedChildren, active_item)
           ELSE 0

\* C10 witness: -1 was passed and became the index 1 of the active item.
C10_Witness ==
  /\ last.op = "get_insert_pos"
  /\ last.pos = -1
  /\ active_item # NULL
  /\ last.retpos = 1
  /\ ResolvedChildren[2] = active_item

(***************************************************************************)
(* Callers that meet only what the tree checks: any item, any parent, any  *)
(* position.  Nothing keeps them from adding an item that still sits in a  *)
(* detached group, or from moving a group into itself.                     *)
(***************************************************************************)
AddItemAny ==
  \E item \in AllItems, par \in {NULL} \cup Groups :
    \E position \in 0 .. MaxPos :
      Tick /\ gimp_item_tree_add_item(item, par, position)

ReorderItemAny ==
  \E item \in AllItems, new_parent \in AllItems \cup {NULL} :
    \E new_index \in Positions, push_undo \in BOOLEAN :
      Tick /\ gimp_item_tree_reorder_item(item, new_parent, new_index,
                                          push_undo)

NextWide ==
  \/ SetActiveItem
  \/ GetItemByName
  \/ GetInsertPos
  \/ AddItemAny
  \/ RemoveItem
  \/ ReorderItemAny
  \/ RenameItem

SpecWide == Init /\ [][NextWide]_vars

(***************************************************************************)
(* reorder_item.                                                           *)
(***************************************************************************)
\* a sequence of children without one item
Without(seq, item) == SelectSeq(seq, LAMBDA o : o # item)

\* C11: after a successful reorder_item the item is the child at index
\* clamp(new_index, 0, n) of the destination container, n being the number
\* of its other children; its parent is new_parent; it is in no other
\* container; the order of all other items, the set of attached items and
\* the name index are unchanged.
C11_ReorderResult ==
  [][ (last'.op = "reorder_item" /\ last'.ok) =>
        LET item == last'.item
            dest == last'.parent
            n    == Len(Without(children[dest], item))
            idx  == CLAMP(last'.pos, 0, n)
        IN  /\ idx < Len(children'[dest])
            /\ children'[dest][idx + 1] = item
            /\ parent'[item] = dest
            /\ \A c \in Containers \ {dest} : item \notin ChildSet(children', c)
            /\ \A c \in Containers :
                 Without(children'[c], item) = Without(children[c], item)
            /\ Attached' = Attached
            /\ name_hash' = name_hash
            /\ name' = name
    ]_vars

\* C12: reorder_item pushes exactly one reorder undo record when push_undo
\* is true and the item's container or clamped index changes, and the record
\* is taken before the hierarchy is modified (it shows the old parent and
\* the old index); when neither changes it pushes nothing, changes nothing
\* and still succeeds.
C12_ReorderUndo ==
  [][ (last'.op = "reorder_item" /\ last'.ok) =>
        LET item  == last'.item
            dest  == last'.parent
            from  == parent[item]
            old   == PlaceIn(children[from], item)
            n     == Len(Without(children[dest], item))
            idx   == CLAMP(last'.pos, 0, n)
            moved == dest # from \/ idx # old
        IN  IF moved
            THEN IF last'.push
                 THEN /\ Len(last'.undo) = 1
                      /\ last'.undo[1].kind = "reorder"
                      /\ last'.undo[1].item = item
                      /\ last'.undo[1].parent = from
                      /\ last'.undo[1].index = old
                 ELSE last'.undo = << >>
            ELSE /\ last'.undo = << >>
                 /\ tree' = tree
    ]_vars

\* C12 witness: an item was moved to another container with push_undo, and
\* the one record pushed shows the parent it had before.
C12_Witness ==
  /\ last.op = "reorder_item" /\ last.ok /\ last.push
  /\ Len(last.undo) = 1
  /\ last.undo[1].kind = "reorder"
  /\ last.undo[1].parent # parent[last.item]

(***************************************************************************)
(* rename_item.                                                            *)
(***************************************************************************)
\* C13: rename_item with the item's current name changes nothing and pushes
\* no undo; with a different name it pushes (when push_undo is true) exactly
\* one rename undo record that shows the item with its old name and its old
\* index entry, and afterwards the old key is gone from the index and the
\* item's final name is a key of the index that maps to the item.
C13_RenameOrder ==
  [][ (last'.op = "rename_item" /\ last'.ok) =>
        LET item == last'.item
            old  == name[item]
        IN  IF last'.nm = old
            THEN /\ tree' = tree
                 /\ last'.undo = << >>
            ELSE /\ IF last'.push
                    THEN /\ Len(last'.undo) = 1
                         /\ last'.undo[1].kind = "rename"
                         /\ last'.undo[1].item = item
                         /\ last'.undo[1].name = old
                         /\ last'.undo[1].keyed
                    ELSE last'.undo = << >>
                 /\ name'[item] # old =>
                      \A e \in name_hash' : e.value = item => e.key # old
                 /\ Entry(name'[item], item, FALSE) \in name_hash'
    ]_vars

(***************************************************************************)
(* Calls with a violated precondition.                                     *)
(***************************************************************************)
\* the item is not one the tree's image has attached
NotOurs(item) ==
  ~gimp_item_is_attached(children, item) \/
  gimp_item_get_image(item) # TreeImage

\* a new parent reorder_item must not take
BadParent(par) ==
  par # NULL /\ (NotOurs(par) \/ par \notin Groups)

\* C14: a call with a violated precondition (add_item of an attached item
\* or of an item of another image; remove_item, reorder_item, rename_item or
\* a non-null set_active_item of an item that is unattached or of another
\* image; reorder_item into a new parent that is unattached, of another
\* image or without children container) returns early: containers, parents,
\* names, the name index and the active item are unchanged and no undo
\* record is pushed.
C14_RejectedUnchanged ==
  [][ LET item == last'.item
          violated ==
            \/ /\ last'.op = "add_item"
               /\ \/ gimp_item_is_attached(children, item)
                  \/ gimp_item_get_image(item) # TreeImage
            \/ /\ last'.op \in {"remove_item", "reorder_item", "rename_item"}
               /\ NotOurs(item)
            \/ /\ last'.op = "set_active_item"
               /\ item # NULL
               /\ NotOurs(item)
            \/ /\ last'.op = "reorder_item"
               /\ last'.ok
               /\ BadParent(last'.parent)
            \/ ~last'.ok
      IN  violated => ( /\ ~last'.ok
                        /\ tree' = tree
                        /\ last'.undo = << >> )
    ]_vars

\* C14 witness: reorder_item of an attached item of the image was turned
\* down, which only its new parent can have caused.
C14_Witness ==
  /\ last.op = "reorder_item" /\ ~last.ok
  /\ last.item \in Attached

(***************************************************************************)
(* The hierarchy as a tree.                                                *)
(***************************************************************************)
\* the parent, the parent's parent, ... of an item, up to a number of steps
RECURSIVE Ancestors(_, _)
Ancestors(item, steps) ==
  IF steps = 0 \/ parent[item] = NULL THEN {}
  ELSE {parent[item]} \cup Ancestors(parent[item], steps - 1)

\* the containers that hold an item
Holders(item) == { c \in Containers : item \in ChildSet(children, c) }

\* no item is its own parent or ancestor, and an item with a parent is a
\* child of that parent's container and of no other container
StrictTree ==
  \A i \in Items :
    /\ i \notin Ancestors(i, Cardinality(Items))
    /\ i \notin Descendants(children, i)
    /\ parent[i] # NULL => Holders(i) = {parent[i]}
    /\ Cardinality(Holders(i)) <= 1

\* C19: after any sequence of add_item, remove_item and reorder_item calls
\* whose checked preconditions hold the hierarchy is a strict tree, and an
\* attached item stays reachable from the root container unless it, or a
\* group it is below, is removed.
C19_StrictTree ==
  /\ []StrictTree
  /\ [][ /\ (last'.op \in {"add_item", "reorder_item"}) =>
              Attached \subseteq Attached'
         /\ (last'.op = "remove_item" /\ last'.ok) =>
              Attached \ ({last'.item} \cup Descendants(children, last'.item))
                \subseteq Attached'
     ]_vars

MaxRuns == 2

\* 2^k
RECURSIVE Pow2(_)
Pow2(k) == IF k = 0 THEN 1 ELSE 2 * Pow2(k - 1)

Abs(n) == IF n < 0 THEN 0 - n ELSE n

\* the unit in the last place of a float that holds the natural number n:
\* floats have 24 significant bits
Ulp(n) ==
  Pow2(CHOOSE k \in 0..6 : n < Pow2(24 + k) /\ (k = 0 \/ n >= Pow2(23 + k)))

\* a natural number rounded to the nearest float, ties to even
RoundNat(n) ==
  LET u == Ulp(n)
      q == n \div u
      r == n % u
  IN  IF 2 * r < u THEN q * u
      ELSE IF 2 * r > u THEN (q + 1) * u
      ELSE IF q % 2 = 0 THEN q * u ELSE (q + 1) * u

\* an integer stored in a gfloat, or the result of a float operation whose
\* exact result is the integer
Float(n) == IF n < 0 THEN 0 - RoundNat(0 - n) ELSE RoundNat(n)

Sign(n) == IF n > 0 THEN "pos" ELSE IF n < 0 THEN "neg" ELSE "zero"

IsFinite(c) == c \in {"zero", "pos", "neg", "fin"}

IsInf(c) == c \in {"pinf", "ninf"}

Neg(c) ==
  CASE c = "pinf" -> "ninf"
    [] c = "ninf" -> "pinf"
    [] c = "pos"  -> "neg"
    [] c = "neg"  -> "pos"
    [] OTHER      -> c

\* a + b
FAdd(a, b) ==
  IF a = "nan" \/ b = "nan" THEN "nan"
  ELSE IF a = "nonfin" \/ b = "nonfin" THEN "nonfin"
  ELSE IF IsInf(a) /\ IsInf(b) THEN (IF a = b THEN a ELSE "nan")
  ELSE IF IsInf(a) THEN a
  ELSE IF IsInf(b) THEN b
  ELSE IF a = "zero" THEN b
  ELSE IF b = "zero" THEN a
  ELSE IF a = b THEN a
  ELSE "fin"

\* a - b
FSub(a, b) == FAdd(a, Neg(b))

\* a * b
FMul(a, b) ==
  IF a = "nan" \/ b = "nan" THEN "nan"
  ELSE IF a = "nonfin" \/ b = "nonfin" THEN "nonfin"
  ELSE IF IsInf(a) \/ IsInf(b)
       THEN IF a = "zero" \/ b = "zero" THEN "nan"
            ELSE IF a = "fin" \/ b = "fin" THEN "nonfin"
            ELSE IF (a \in {"pinf", "pos"}) = (b \in {"pinf", "pos"})
                 THEN "pinf" ELSE "ninf"
  ELSE IF a = "zero" \/ b = "zero" THEN "zero"
  ELSE IF a = "fin" \/ b = "fin" THEN "fin"
  ELSE IF a = b THEN "pos" ELSE "neg"

\* a / b
FDiv(a, b) ==
  IF a = "nan" \/ b = "nan" THEN "nan"
  ELSE IF a = "nonfin" \/ b = "nonfin" THEN "nonfin"
  ELSE IF IsInf(b) THEN (IF IsInf(a) THEN "nan" ELSE "zero")
  ELSE IF b = "zero"
       THEN CASE a = "zero" -> "nan"
              [] a \in {"pos", "pinf"} -> "pinf"
              [] a \in {"neg", "ninf"} -> "ninf"
              [] OTHER -> "nonfin"
  ELSE IF b = "fin" THEN (IF IsInf(a) THEN "nonfin" ELSE "fin")
  ELSE IF b = "pos" THEN a
  ELSE Neg(a)

\* sqrt() of an integer
FSqrt(n) == IF n < 0 THEN "nan" ELSE Sign(n)

\* log() of an integer
FLog(n) == IF n < 0 THEN "nan" ELSE IF n = 0 THEN "ninf" ELSE "fin"

\* atan2 (y, x) for an integer y and x one of "nan", "zero", "pos": the
\* angle lies in [-pi/2, pi/2] and has the sign of y; atan2 (0, 0) is 0
FAtan2(y, x) == IF x = "nan" THEN "nan" ELSE Sign(y)

(***************************************************************************)
(* The cage, the region of interest and the output buffer.                 *)
(***************************************************************************)
\* config->cage_vertices of the one configuration of the model: a thin
\* triangle
CageVertices == << << 0, 0 >>, << 109, 1 >>, << 0, 2 >> >>

\* the values of occc->config
Configs == { NULL, CageVertices }

\* config->cage_vertice_number
cage_vertice_number(cfg) == Len(cfg)

\* the rectangles the buffer iterator hands out
Tile1 == [x |-> 107, y |-> 1, width |-> 2, height |-> 2]
Tile2 == [x |-> 0, y |-> 1, width |-> 2, height |-> 1]

\* the regions process() is called for, as the tiles the iterator yields
\* for them
Rois == { << Tile1 >>, << Tile2 >>, << Tile1, Tile2 >> }

\* the pixels of a rectangle, of a region and of the buffer
TilePixels(t) ==
  { << t.x + dx, t.y + dy >> : dx \in 0 .. t.width - 1, dy \in 0 .. t.height - 1 }

RoiPixels(roi) == UNION { TilePixels(roi[i]) : i \in 1 .. Len(roi) }

Pixels == TilePixels(Tile1) \cup TilePixels(Tile2)

\* the float slots of a pixel: N vertex coefficients, then N edge
\* coefficients
Slots == 0 .. 2 * cage_vertice_number(CageVertices) - 1

\* a float of the buffer: its class, and how it came about as a sum: the
\* value the slot held at first, then the terms added and subtracted
Value(cls, sym) == [cls |-> cls, sym |-> sym]

Term(op, j) == [op |-> op, j |-> j]

\* 0.0
FloatZero == Value("zero", << >>)

\* a finite value some earlier writer left in a slot
FloatOld(slot) == Value("fin", << Term("old", slot) >>)

\* the contents the buffer can have when process() is first called
InitialOutputs ==
  { [p \in Pixels |-> [k \in Slots |-> FloatZero]],
    [p \in Pixels |-> [k \in Slots |-> FloatOld(k)]] }

\* gimp_cage_config_point_inside(): the crossing test over the edges of the
\* cage
point_inside(cfg, x, y) ==
  LET n == cage_vertice_number(cfg)
      prev(i) == IF i = 1 THEN n ELSE i - 1
      crosses(i) ==
        LET xi == cfg[i][1]
            yi == cfg[i][2]
            xj == cfg[prev(i)][1]
            yj == cfg[prev(i)][2]
        IN  /\ (yi <= y /\ y < yj) \/ (yj <= y /\ y < yi)
            /\ IF yj > yi
               THEN (x - xi) * (yj - yi) < (xj - xi) * (y - yi)
               ELSE (x - xi) * (yj - yi) > (xj - xi) * (y - yi)
  IN  Cardinality({ i \in 1 .. n : crosses(i) }) % 2 = 1

(***************************************************************************)
(* The kernel: one pass of the loop over the edges, for edge j and the     *)
(* pixel (x, y).                                                           *)
(***************************************************************************)
\* gimp_operation_cage_coef_calc_is_on_straight(): the normalised vectors
\* have a determinant below 1e-9 exactly when the integer determinant is
\* 0 (the squared lengths of the model stay far below 1e18); a vector of
\* length 0 is left 0 by gimp_vector2_normalize
gimp_operation_cage_coef_calc_is_on_straight(d1, d2, p) ==
  LET v1x == p[1] - d1[1]
      v1y == p[2] - d1[2]
      v2x == d2[1] - d1[1]
      v2y == d2[2] - d1[2]
  IN  v1x * v2y - v2x * v1y = 0

\* lines 245-256: the edge coefficient before the isnan test, and the two
\* terms of the vertex coefficients.  In 4.0 * S - (R * R) / Q the
\* quotient is 4S exactly when 4SQ = R * R
EdgeCoefs(Q, S, R, BA, RR, D, SRT, A10, L10, L1, on_straight) ==
  LET factor == IF Q = 0 THEN FSub(Sign(S), FDiv(Sign(RR), "zero"))
                ELSE IF D = 0 THEN "zero" ELSE "fin"
      RQ == FDiv(Sign(R), Sign(Q))
  IN  [SRT   |-> SRT,
       edge  |-> FMul("pos", FAdd(FAdd(FAdd(FMul(factor, A10),
                                            FMul(RQ, L10)), L1), "neg")),
       on_straight |-> on_straight,
       add   |-> FMul(Sign(BA), FSub(FDiv(L10, Sign(Q)),
                                     FMul(A10, FAdd("pos", RQ)))),
       sub   |-> FMul(Sign(BA), FSub(FDiv(L10, Sign(Q)), FMul(A10, RQ)))]

\* lines 239-242: A0, A1, A10 and L10; both quotients by SRT are taken
\* here
EdgeAngles(Q, S, R, BA, RR, D, SRT, L0, L1, on_straight) ==
  EdgeCoefs(Q, S, R, BA, RR, D, SRT,
            FSub(FDiv(FAtan2(2 * Q + R, SRT), SRT),
                 FDiv(FAtan2(R, SRT), SRT)),
            FSub(L1, L0), L1, on_straight)

\* lines 235-238: SRT, L0 and L1; 4.0 * S * Q - R * R is a double
\* expression over the floats S, Q and R * R
EdgeRoot(Q, S, R, BA, RR, on_straight) ==
  EdgeAngles(Q, S, R, BA, RR, 4 * S * Q - RR, FSqrt(4 * S * Q - RR),
             FLog(S), FLog(Float(Float(S + Q) + R)), on_straight)

\* line 235: R * R is a product of floats, and a float itself
EdgeSquare(Q, S, R, BA, on_straight) ==
  EdgeRoot(Q, S, R, BA, Float(R * R), on_straight)

\* lines 231-234: Q, S, R and BA are stored in gfloat variables
EdgeProducts(ax, ay, bx, by, on_straight) ==
  EdgeSquare(Float(ax * ax + ay * ay), Float(bx * bx + by * by),
             Float(2 * (ax * bx + ay * by)), Float(bx * ay - by * ax),
             on_straight)

\* lines 222-230 and 253: the values of one pass
EdgeValues(cfg, j, x, y) ==
  LET v1 == cfg[j + 1]
      v2 == cfg[((j + 1) % cage_vertice_number(cfg)) + 1]
  IN  EdgeProducts(v2[1] - v1[1], v2[2] - v1[2], v1[1] - x, v1[2] - y,
        gimp_operation_cage_coef_calc_is_on_straight(v1, v2, << x, y >>))

(***************************************************************************)
(* gimp_operation_cage_coef_calc_process(): the calls, each with its own   *)
(* iterator and locals.                                                    *)
(***************************************************************************)
\* the threads that can be inside process()
Workers == { "w1", "w2" }

\* a call that has not been made
IdleProc ==
  [pc |-> "idle", roi |-> << >>, tile |-> 0, n_pixels |-> 0, x |-> 0, y |-> 0,
   coef |-> 0, j |-> 0, result |-> "none"]

\* nothing has happened yet
NoHist ==
  [runs |-> 0, roi |-> << >>, before |-> << >>, once |-> << >>,
   used_null |-> FALSE, ops |-> << >>, wrote |-> {}]

\* the rectangle the iterator of a call is at: it->roi
CurrentTile(w) == proc[w].roi[proc[w].tile]

\* a variant of the addressing in which every call writes through the data
\* pointer of the first rectangle
Addr_Shared(t, offset, n) ==
  LET k == offset \div (2 * n)
  IN  [pixel |-> << Tile1.x + (k % t.width), Tile1.y + (k \div t.width) >>,
       slot  |-> offset % (2 * n)]

\* the pixel and the slot a float offset of the tile data stands for
Addr(t, offset, n) ==
  LET k == offset \div (2 * n)
  IN  [pixel |-> << t.x + (k % t.width), t.y + (k \div t.width) >>,
       slot  |-> offset % (2 * n)]

\* the buffer after a float of the tile data was given a new value
Store(out, a, v) == [out EXCEPT ![a.pixel][a.slot] = v]

Load(out, a) == out[a.pixel][a.slot]

\* a variant of the store of the edge coefficient without the isnan test
EdgeStored_NoGuard(j, cls) == { Value(cls, << Term("edge", j) >>) }

\* what "if (isnan (...)) ... = 0.0" leaves of a computed edge coefficient
EdgeStored(j, cls) ==
  IF cls = "nan" THEN { FloatZero }
  ELSE IF cls = "nonfin"
       THEN { FloatZero, Value("nonfin", << Term("edge", j) >>) }
  ELSE { Value(cls, << Term("edge", j) >>) }

\* lines 191-201: the configuration is read (line 194) before it is tested
\* (line 198).  Without a configuration that read is through a null
\* pointer: the call faults, or the read goes unnoticed and the test
\* returns FALSE, or the test is compiled away after the read and the call
\* goes on and finds no pixel inside
gimp_operation_cage_coef_calc_process(w, roi) ==
  /\ proc[w].pc = "idle"
  /\ hist.runs < MaxRuns
  /\ IF config = NULL
     THEN /\ \E outcome \in { "crashed", "FALSE", "TRUE" } :
               proc' = [proc EXCEPT ![w] =
                          [IdleProc EXCEPT
                             !.pc = IF outcome = "crashed"
                                    THEN "crashed" ELSE "done",
                             !.roi = roi,
                             !.result = IF outcome = "crashed"
                                        THEN "none" ELSE outcome]]
          /\ hist' = [hist EXCEPT !.runs = @ + 1, !.used_null = TRUE,
                                  !.ops = << >>, !.wrote = {}]
     ELSE /\ proc' = [proc EXCEPT ![w] =
                        [IdleProc EXCEPT !.pc = "next", !.roi = roi]]
          /\ hist' = [hist EXCEPT
                        !.runs = @ + 1,
                        !.roi = IF hist.runs = 0 THEN roi ELSE @,
                        !.before = IF hist.runs = 0 THEN output ELSE @,
                        !.ops = << >>, !.wrote = {}]
  /\ UNCHANGED << config, output >>

\* lines 203-211 and 273: the next tile, or the end of the call
gegl_buffer_iterator_next(w) ==
  /\ proc[w].pc = "next"
  /\ IF proc[w].tile < Len(proc[w].roi)
     THEN LET t == proc[w].roi[proc[w].tile + 1]
          IN  /\ proc' = [proc EXCEPT ![w] =
                            [@ EXCEPT !.pc = "pixel",
                                      !.tile = @ + 1,
                                      !.n_pixels = t.width * t.height,
                                      !.x = t.x,
                                      !.y = t.y,
                                      !.coef = 0]]
              /\ hist' = [hist EXCEPT !.ops = << >>, !.wrote = {}]
     ELSE /\ proc' = [proc EXCEPT ![w] =
                        [@ EXCEPT !.pc = "done", !.result = "TRUE"]]
          /\ hist' = [hist EXCEPT
                        !.once = IF hist.runs = 1 THEN output ELSE @,
                        !.ops = << >>, !.wrote = {}]
  /\ UNCHANGED << config, output >>

\* a variant of the move to the next pixel that never starts a new row
Advance_NoWrap(w, p) ==
  [p EXCEPT !.coef = @ + 2 * cage_vertice_number(config), !.x = p.x + 1]

\* lines 261-269: the cursor and the coordinates move to the next pixel
Advance(w, p) ==
  LET t == CurrentTile(w)
      n == cage_vertice_number(config)
  IN  [p EXCEPT !.coef = @ + 2 * n,
                !.x = IF p.x + 1 >= t.x + t.width THEN t.x ELSE p.x + 1,
                !.y = IF p.x + 1 >= t.x + t.width THEN p.y + 1 ELSE p.y]

\* a variant of the test of the pixel that clears the slots of a pixel
\* outside the cage
PixelTest_ZeroOutside(w) ==
  /\ proc[w].pc = "pixel"
  /\ IF proc[w].n_pixels = 0
     THEN /\ proc' = [proc EXCEPT ![w] = [@ EXCEPT !.pc = "next",
                                                   !.n_pixels = @ - 1]]
          /\ output' = output
     ELSE LET p == [proc[w] EXCEPT !.n_pixels = @ - 1]
          IN  IF point_inside(config, p.x, p.y)
              THEN /\ proc' = [proc EXCEPT ![w] = [p EXCEPT !.pc = "edge",
                                                            !.j = 0]]
                   /\ output' = output
              ELSE /\ proc' = [proc EXCEPT ![w] = Advance(w, p)]
                   /\ output' =
                        [output EXCEPT
                           ![Addr(CurrentTile(w), p.coef,
                                  cage_vertice_number(config)).pixel] =
                             [k \in Slots |-> FloatZero]]
  /\ hist' = [hist EXCEPT !.ops = << >>, !.wrote = {}]
  /\ UNCHANGED config

\* lines 213-215: while (n_pixels--), and the test of the pixel; a pixel
\* outside the cage is passed over (lines 261-269)
PixelTest(w) ==
  /\ proc[w].pc = "pixel"
  /\ IF proc[w].n_pixels = 0
     THEN proc' = [proc EXCEPT ![w] = [@ EXCEPT !.pc = "next",
                                                !.n_pixels = @ - 1]]
     ELSE LET p == [proc[w] EXCEPT !.n_pixels = @ - 1]
          IN  IF point_inside(config, p.x, p.y)
              THEN proc' = [proc EXCEPT ![w] = [p EXCEPT !.pc = "edge",
                                                         !.j = 0]]
              ELSE proc' = [proc EXCEPT ![w] = Advance(w, p)]
  /\ hist' = [hist EXCEPT !.ops = << >>, !.wrote = {}]
  /\ UNCHANGED << config, output >>

\* lines 217-258: one pass of the loop over the edges
EdgePass(w) ==
  LET p  == proc[w]
      n  == cage_vertice_number(config)
      t  == CurrentTile(w)
      ev == EdgeValues(config, p.j, p.x, p.y)
      ae == Addr(t, p.coef + p.j + n, n)
      a1 == Addr(t, p.coef + p.j, n)
      a2 == Addr(t, p.coef + ((p.j + 1) % n), n)
  IN  /\ p.pc = "edge"
      /\ p.j < n
      /\ \E st \in EdgeStored(p.j, ev.edge) :
           LET o1 == Store(output, ae, st)
               o2 == Store(o1, a1,
                       Value(FAdd(Load(o1, a1).cls, ev.add),
                             Append(Load(o1, a1).sym, Term("add", p.j))))
               o3 == Store(o2, a2,
                       Value(FSub(Load(o2, a2).cls, ev.sub),
                             Append(Load(o2, a2).sym, Term("sub", p.j))))
           IN  /\ output' = IF ev.on_straight THEN o1 ELSE o3
               /\ hist' = [hist EXCEPT
                             !.ops =
                               << "sqrt", "log", "log", "div_SRT", "div_SRT",
                                  "store_edge", "isnan" >>
                               \o (IF st = FloatZero /\ ev.edge # "zero"
                                   THEN << "store_zero" >> ELSE << >>)
                               \o << "is_on_straight" >>
                               \o (IF ev.on_straight THEN << >>
                                   ELSE << "add_vertex", "sub_vertex" >>),
                             !.wrote =
                               {ae} \cup (IF ev.on_straight THEN {}
                                          ELSE {a1, a2})]
      /\ proc' = [proc EXCEPT ![w] = [@ EXCEPT !.j = @ + 1]]
      /\ UNCHANGED config

\* lines 217 and 261-269: the loop over the edges is over
NextPixel(w) ==
  /\ proc[w].pc = "edge"
  /\ proc[w].j = cage_vertice_number(config)
  /\ proc' = [proc EXCEPT ![w] = [Advance(w, proc[w]) EXCEPT !.pc = "pixel"]]
  /\ hist' = [hist EXCEPT !.ops = << >>, !.wrote = {}]
  /\ UNCHANGED << config, output >>

\* the caller has the result of a call and can make another one
Returned(w) ==
  /\ proc[w].pc = "done"
  /\ hist.runs < MaxRuns
  /\ proc' = [proc EXCEPT ![w] = [@ EXCEPT !.pc = "idle"]]
  /\ UNCHANGED << config, output, hist >>

(***************************************************************************)
(* One thread calls process(), again and again on the same buffer.         *)
(***************************************************************************)
\* no item tree exists next to the operation
NoTree ==
  /\ children = [c \in Containers |-> << >>]
  /\ parent = [i \in Items |-> NULL]
  /\ name = [i \in Items |-> << "L" >>]
  /\ name_hash = {}
  /\ active_item = NULL
  /\ last = NoCall
  /\ pre = NoPre
  /\ calls = 0

OtherVars == << children, parent, name, name_hash, active_item, last, pre, calls >>

InitCage ==
  /\ NoTree
  /\ config \in Configs
  /\ output \in InitialOutputs
  /\ proc = [w \in Workers |-> IdleProc]
  /\ hist = NoHist

Process ==
  \E roi \in Rois :
    gimp_operation_cage_coef_calc_process("w1", roi) /\ UNCHANGED OtherVars

NextTile == gegl_buffer_iterator_next("w1") /\ UNCHANGED OtherVars

Pixel == PixelTest("w1") /\ UNCHANGED OtherVars

Edge == EdgePass("w1") /\ UNCHANGED OtherVars

EndOfPixel == NextPixel("w1") /\ UNCHANGED OtherVars

Return == Returned("w1") /\ UNCHANGED OtherVars

NextCage ==
  \/ Process
  \/ NextTile
  \/ Pixel
  \/ Edge
  \/ EndOfPixel
  \/ Return

SpecCage == InitCage /\ [][NextCage]_vars

(***************************************************************************)
(* The claims about the cage operation.                                    *)
(***************************************************************************)
\* a call of process() has come to its end, one way or the other
Ended == proc["w1"].pc \in { "done", "crashed" }

\* a call of process() with a configuration has returned
Completed ==
  /\ config # NULL
  /\ proc["w1"].pc = "done"
  /\ proc["w1"].result = "TRUE"

\* the pixels of the region of the call that lie inside the cage
InsideProcessed ==
  { p \in RoiPixels(proc["w1"].roi) : point_inside(config, p[1], p[2]) }

\* C15: without a configuration process() returns FALSE, the test for the
\* absent configuration comes before any use of the configuration, and the
\* output buffer is not written
C15_AbsentConfig ==
  (config = NULL /\ Ended) =>
    /\ proc["w1"].pc = "done"
    /\ proc["w1"].result = "FALSE"
    /\ ~ hist.used_null
    /\ output \in InitialOutputs

\* C16: the vertex slots of a pixel inside the cage are zero when the loop
\* over the edges starts, what process() leaves in the slots of such a
\* pixel owes nothing to the earlier contents of the buffer, and a second
\* call over the same region leaves the buffer as the first call left it
C16_ZeroedFirst ==
  /\ (config # NULL /\ proc["w1"].pc = "edge" /\ proc["w1"].j = 0) =>
       \A k \in 0 .. cage_vertice_number(config) - 1 :
         output[<< proc["w1"].x, proc["w1"].y >>][k] = FloatZero
  /\ Completed =>
       \A p \in InsideProcessed : \A k \in Slots :
         \A i \in 1 .. Len(output[p][k].sym) :
           output[p][k].sym[i].op # "old"
  /\ (Completed /\ hist.runs = 2 /\ proc["w1"].roi = hist.roi) =>
       output = hist.once

\* C17: a step of process() leaves every slot of a pixel outside the cage
\* as it was
C17_OutsideUntouched ==
  [][ \A p \in Pixels :
        (config # NULL /\ ~ point_inside(config, p[1], p[2]))
          => output'[p] = output[p] ]_vars

\* a call over a region with pixels outside the cage has returned: the
\* pixels inside were written, the ones outside hold what they held
C17_Witness ==
  /\ Completed
  /\ \E p \in RoiPixels(proc["w1"].roi) :
       /\ ~ point_inside(config, p[1], p[2])
       /\ \A k \in Slots : output[p][k] = FloatOld(k)
  /\ \E p \in InsideProcessed : \E k \in Slots : output[p][k] # FloatOld(k)

\* C18: after process() every slot of every pixel inside the cage holds a
\* finite value
C18_FiniteCoefs ==
  Completed =>
    \A p \in InsideProcessed : \A k \in Slots : IsFinite(output[p][k].cls)

\* the number of pixels of the current tile that a call has passed: the
\* pixel under the loop over the edges is not passed yet
Passed(w) ==
  LET t == CurrentTile(w)
  IN  IF proc[w].pc = "edge"
      THEN t.width * t.height - proc[w].n_pixels - 1
      ELSE t.width * t.height - proc[w].n_pixels

\* C21: in a tile of width w and height h the k-th pixel visited is
\* (roi.x + k mod w, roi.y + k div w) and its writes go to the floats
\* k*2N .. (k+1)*2N - 1 of the tile only; the pixels are visited once each,
\* k = 0 .. w*h - 1, and x, y and the cursor start afresh in every tile
C21_TileWalk ==
  (config # NULL /\ proc["w1"].pc \in { "pixel", "edge" }) =>
    LET t == CurrentTile("w1")
        k == Passed("w1")
        n == cage_vertice_number(config)
    IN  /\ k \in 0 .. t.width * t.height
        /\ proc["w1"].coef = k * 2 * n
        /\ k < t.width * t.height =>
             /\ proc["w1"].x = t.x + (k % t.width)
             /\ proc["w1"].y = t.y + (k \div t.width)
        /\ \A a \in hist.wrote :
             /\ proc["w1"].pc = "edge"
             /\ a.pixel = << t.x + (k % t.width), t.y + (k \div t.width) >>
             /\ a.slot \in Slots

\* the second pixel of the second tile of a call is under the loop over
\* the edges and has been written
C21_Witness ==
  /\ config # NULL
  /\ proc["w1"].pc = "edge"
  /\ proc["w1"].tile = 2
  /\ Passed("w1") = 1
  /\ hist.wrote # {}

\* the places of an operation in the last pass of the loop over the edges
Places(op) == { i \in DOMAIN hist.ops : hist.ops[i] = op }

\* C22: in every pass of the loop over the edges the collinearity test
\* comes before any division by SRT, and no quotient by SRT is taken for
\* an edge whose line holds the pixel
C22_TestBeforeDivision ==
  /\ \A d \in Places("div_SRT") : \E t \in Places("is_on_straight") : t < d
  /\ (hist.ops # << >> /\ Places("add_vertex") = {}) => Places("div_SRT") = {}

\* the terms a slot has received from the passes of the loop over the edges
Received(v) == { v.sym[i] : i \in { i \in DOMAIN v.sym : v.sym[i].op # "old" } }

\* the number of terms a slot has received
TermCount(v) == Cardinality({ i \in DOMAIN v.sym : v.sym[i].op # "old" })

\* the terms vertex slot k of pixel p is due from its two edges
Due(p, k) ==
  LET n    == cage_vertice_number(config)
      prev == (k + n - 1) % n
  IN  (IF EdgeValues(config, k, p[1], p[2]).on_straight
       THEN {} ELSE { Term("add", k) })
      \cup
      (IF EdgeValues(config, prev, p[1], p[2]).on_straight
       THEN {} ELSE { Term("sub", prev) })

\* one pass of the loop over the edges, for edge j of pixel p
PassEffect(p, j) ==
  LET n  == cage_vertice_number(config)
      ev == EdgeValues(config, j, p[1], p[2])
      j1 == (j + 1) % n
  IN  /\ \A q \in Pixels \ { p } : output'[q] = output[q]
      /\ \A k \in Slots \ { j, j1, n + j } : output'[p][k] = output[p][k]
      /\ ev.edge = "nan" => output'[p][n + j] = FloatZero
      /\ IsFinite(ev.edge) =>
           output'[p][n + j] = Value(ev.edge, << Term("edge", j) >>)
      /\ ev.on_straight =>
           /\ output'[p][j] = output[p][j]
           /\ output'[p][j1] = output[p][j1]
      /\ ~ ev.on_straight =>
           /\ output'[p][j].sym = Append(output[p][j].sym, Term("add", j))
           /\ output'[p][j1].sym = Append(output[p][j1].sym, Term("sub", j))

\* C23: a pass for an edge that is_on_straight reports collinear with the
\* pixel changes neither vertex slot j nor vertex slot (j+1) mod N and
\* assigns edge slot N+j, with 0 for a NaN; a pass for another edge
\* updates the vertex slots j and (j+1) mod N and no other; after a call
\* every vertex slot has one term from each of its two edges that is not
\* collinear with the pixel, and no other term
C23_EdgePass ==
  /\ [][ (config # NULL /\ proc["w1"].pc = "edge"
            /\ proc'["w1"].j = proc["w1"].j + 1)
           => PassEffect(<< proc["w1"].x, proc["w1"].y >>, proc["w1"].j) ]_vars
  /\ [] ( (Completed /\ hist.runs = 1) =>
            \A p \in InsideProcessed :
              \A k \in 0 .. cage_vertice_number(config) - 1 :
                /\ Received(output[p][k]) = Due(p, k)
                /\ TermCount(output[p][k]) = Cardinality(Due(p, k)) )

\* the pass for edge 2 of pixel (0, 1), which lies on the line of that
\* edge, is over: only the edge slot was written, and it holds 0
C23_Witness ==
  /\ config # NULL
  /\ proc["w1"].pc = "edge"
  /\ proc["w1"].x = 0
  /\ proc["w1"].y = 1
  /\ proc["w1"].j = 3
  /\ Cardinality(hist.wrote) = 1
  /\ EdgeValues(config, 2, 0, 1).on_straight
  /\ EdgeValues(config, 2, 0, 1).edge = "nan"
  /\ output[<< 0, 1 >>][5] = FloatZero
  /\ Term("add", 0) \in Received(output[<< 0, 1 >>][0])

(***************************************************************************)
(* Two threads call process() on the same buffer, each for a rectangle of  *)
(* its own, and take their steps in any order.                             *)
(***************************************************************************)
\* the rectangles other calls were made for
TakenBy(others) == UNION { RoiPixels(proc[w].roi) : w \in others }

ProcessPar ==
  \E w \in Workers : \E roi \in { << Tile1 >>, << Tile2 >> } :
    /\ RoiPixels(roi) \cap TakenBy(Workers \ { w }) = {}
    /\ gimp_operation_cage_coef_calc_process(w, roi)
    /\ UNCHANGED OtherVars

NextTilePar ==
  \E w \in Workers : gegl_buffer_iterator_next(w) /\ UNCHANGED OtherVars

PixelPar == \E w \in Workers : PixelTest(w) /\ UNCHANGED OtherVars

EdgePar == \E w \in Workers : EdgePass(w) /\ UNCHANGED OtherVars

EndOfPixelPar == \E w \in Workers : NextPixel(w) /\ UNCHANGED OtherVars

NextPar ==
  \/ ProcessPar
  \/ NextTilePar
  \/ PixelPar
  \/ EdgePar
  \/ EndOfPixelPar

SpecPar == InitCage /\ [][NextPar]_vars

(***************************************************************************)
(* The same calls made one after the other, as a function of the buffer.   *)
(***************************************************************************)
\* lines 245-256: the buffer after the pass for edge j of the pixel at
\* float offset off of rectangle t
PassResult(out, t, off, j, n, ev) ==
  LET ae == Addr(t, off + j + n, n)
      a1 == Addr(t, off + j, n)
      a2 == Addr(t, off + ((j + 1) % n), n)
      o1 == Store(out, ae, CHOOSE st \in EdgeStored(j, ev.edge) : TRUE)
      o2 == Store(o1, a1,
              Value(FAdd(Load(o1, a1).cls, ev.add),
                    Append(Load(o1, a1).sym, Term("add", j))))
  IN  IF ev.on_straight THEN o1
      ELSE Store(o2, a2,
             Value(FSub(Load(o2, a2).cls, ev.sub),
                   Append(Load(o2, a2).sym, Term("sub", j))))

\* lines 217-258: the loop over the edges from edge j on
RECURSIVE EdgesFrom(_, _, _, _, _, _)
EdgesFrom(out, t, off, x, y, j) ==
  IF j >= cage_vertice_number(config) THEN out
  ELSE EdgesFrom(PassResult(out, t, off, j, cage_vertice_number(config),
                            EdgeValues(config, j, x, y)),
                 t, off, x, y, j + 1)

\* lines 213-270: the loop over the pixels of a rectangle from pixel k on
RECURSIVE PixelsFrom(_, _, _)
PixelsFrom(out, t, k) ==
  IF k >= t.width * t.height THEN out
  ELSE PixelsFrom(
         IF point_inside(config, t.x + (k % t.width), t.y + (k \div t.width))
         THEN EdgesFrom(out, t, k * 2 * cage_vertice_number(config),
                        t.x + (k % t.width), t.y + (k \div t.width), 0)
         ELSE out,
         t, k + 1)

\* lines 203-271: the rectangles of a call from rectangle i on
RECURSIVE TilesFrom(_, _, _)
TilesFrom(out, roi, i) ==
  IF i > Len(roi) THEN out
  ELSE TilesFrom(PixelsFrom(out, roi[i], 0), roi, i + 1)

\* the buffer after calls for the rectangles of roi, one after the other
Sequential(out, roi) == TilesFrom(out, roi, 1)

\* every thread has made its call, and the call has returned
AllDone ==
  /\ config # NULL
  /\ \A w \in Workers : proc[w].pc = "done" /\ proc[w].result = "TRUE"

\* C24: when threads process rectangles without a common pixel, no step
\* of a thread writes a slot outside that thread's rectangle, the
\* configuration is never written, and when all threads are done the
\* buffer is the one the same calls give when made one after the other, in
\* either order
C24_DisjointWorkers ==
  /\ [][ /\ config' = config
         /\ \A p \in Pixels :
              output'[p] # output[p] =>
                \E w \in Workers :
                  /\ proc'[w] # proc[w]
                  /\ p \in RoiPixels(proc[w].roi)
                  /\ p \notin TakenBy(Workers \ { w }) ]_vars
  /\ [] ( AllDone =>
            /\ output = Sequential(hist.before,
                                   proc["w1"].roi \o proc["w2"].roi)
            /\ output = Sequential(hist.before,
                                   proc["w2"].roi \o proc["w1"].roi) )

\* both threads are in the loop over the edges of a pixel at the same
\* time, and both have written
C24_Witness ==
  /\ config # NULL
  /\ \A w \in Workers :
       /\ proc[w].pc = "edge"
       /\ proc[w].j >= 1
       /\ \E k \in Slots :
            output[<< proc[w].x, proc[w].y >>][k]
              # hist.before[<< proc[w].x, proc[w].y >>][k]

(***************************************************************************)
(* gimp_item_tree_uniquefy_name(), pass by pass: the item is "A", its name *)
(* is name["A"], and last holds where the call is.                         *)
(***************************************************************************)
UniqItem == "A"

\* G_MAXINT as "%d" prints it, and what number++ makes of it in a gint
MaxIntDigits == << "2", "1", "4", "7", "4", "8", "3", "6", "4", "7" >>

WrappedDigits == << "-", "2", "1", "4", "7", "4", "8", "3", "6", "4", "8" >>

\* the names of the item before the call, and the names proposed
UniqNames ==
  { << "L" >>, << "x", "#", "0", "1" >>, << "f", "#", "-", "3" >>,
    << "m", "#" >> \o MaxIntDigits }

\* the keys other items can hold
UniqKeys ==
  UniqNames \cup
  { << "L", "#", "1" >>, << "L", "#", "2" >>, << "f", "#", "-", "2" >> }

\* the entries an index can have: keys of another item, and a key whose
\* string an earlier call has freed
UniqEntries ==
  { Entry(k, "B", FALSE) : k \in UniqKeys } \cup { Entry(<< "L" >>, "G", TRUE) }

\* where the call is, and the freed keys that still read as their old text
UniqCall(pc, intact) == [op |-> "uniquefy_name", pc |-> pc, intact |-> intact]

InitUniq ==
  /\ children = [c \in Containers |-> << >>]
  /\ parent = [i \in Items |-> NULL]
  /\ active_item = NULL
  /\ pre = NoPre
  /\ calls = 0
  /\ NoCage
  /\ name \in { [i \in Items |-> IF i = UniqItem THEN nm ELSE << "L" >>] :
                  nm \in { << "L" >>, << "x", "#", "0", "1" >> } }
  /\ name_hash \in SUBSET UniqEntries
  /\ last \in { UniqCall("entry", intact) : intact \in SUBSET Dangling(name_hash) }

UniqFrame == UNCHANGED << children, parent, active_item, pre, calls, cage >>

\* lines 587-593: a proposed name replaces the item's name, after the
\* item's old name was taken out of the index
UniqEnter ==
  /\ last.pc = "entry"
  /\ \E new_name \in { {} } \cup { { nn } : nn \in UniqNames } :
       IF new_name # {}
       THEN \E h2 \in g_hash_table_remove(name_hash, last.intact,
                                          name[UniqItem]) :
              \E nn \in new_name :
                /\ name_hash' = FreeName(h2, UniqItem, name[UniqItem])
                /\ name' = [name EXCEPT ![UniqItem] = nn]
       ELSE UNCHANGED << name, name_hash >>
  /\ last' = [last EXCEPT !.pc = "loop"]
  /\ UniqFrame

\* lines 599-626: the name after one pass; number++ (line 623) is done on
\* a gint, where the number after G_MAXINT is G_MININT
UniqStep(nm) ==
  IF IsNumberExt(nm) /\ Ext(nm) = MaxIntDigits
  THEN SubSeq(nm, 1, strrchr(nm, "#")) \o WrappedDigits
  ELSE UniquefyStep(nm)

\* lines 595-626: one pass of the while loop
UniqPass ==
  /\ last.pc = "loop"
  /\ g_hash_table_lookup(name_hash, last.intact, name[UniqItem]) # {}
  /\ name' = [name EXCEPT ![UniqItem] = UniqStep(name[UniqItem])]
  /\ name_hash' = FreeName(name_hash, UniqItem, name[UniqItem])
  /\ UNCHANGED last
  /\ UniqFrame

\* lines 595-596 and 628-630: the lookup finds nothing and the item is
\* inserted under its name
UniqInsert ==
  /\ last.pc = "loop"
  /\ g_hash_table_lookup(name_hash, last.intact, name[UniqItem]) = {}
  /\ name_hash' = g_hash_table_insert(name_hash, last.intact,
                                      name[UniqItem], UniqItem)
  /\ last' = [last EXCEPT !.pc = "done"]
  /\ UNCHANGED name
  /\ UniqFrame

NextUniq ==
  \/ UniqEnter
  \/ UniqPass
  \/ UniqInsert

\* the call is not suspended for ever
SpecUniq == InitUniq /\ [][NextUniq]_vars /\ WF_vars(NextUniq)

\* C25: the loop of gimp_item_tree_uniquefy_name() comes to an end for
\* every index and every name, and the item is then in the index under its
\* name, which no other readable key of the index equals
C25_LoopTerminates ==
  /\ <>(last.pc = "done")
  /\ [] (last.pc = "done" =>
           { e \in Readable(name_hash, last.intact) :
               e.key = name[UniqItem] }
             = { Entry(name[UniqItem], UniqItem, FALSE) })

\* the call is over after the loop ran from a number at the top of gint:
\* the item has the name the wrapped number gives
C25_Witness ==
  /\ last.op = "uniquefy_name"
  /\ last.pc = "done"
  /\ name[UniqItem] = << "m", "#" >> \o WrappedDigits

\* C26: gimp_item_tree_add_item() gives the added item another name only
\* when an other attached item of the tree has the item's name
C26_RenameOnlyOnClash ==
  (last.op = "add_item" /\ last.ok /\ last.ran /\ Final # Proposed) =>
    \E other \in Items \ { last.item } :
      /\ gimp_item_is_attached(children, other)
      /\ name[other] = Proposed

====
